---- MODULE Spec2Model ----
(***************************************************************************)
(* Model of src/src/server.js: the Slack interactive-message handlers      *)
(* (accept_tos, pick_sf_neighborhood options/action, dialog_submission),   *)
(* the slash command handler and the device listing.                       *)
(*                                                                         *)
(* JavaScript runs each callback to completion, so every action below is   *)
(* one callback: the synchronous body of a handler, a timer callback, or   *)
(* the continuation of a settled promise.  `log` records, in program       *)
(* order, the observable effects of the event being handled.               *)
(***************************************************************************)
EXTENDS Integers, Sequences, FiniteSets, TLC

\* ------------------------------------------------------------------ bounds
MaxCommentLen == 2
MaxAttachments == 2
MaxKudos == 2
MaxMatches == 2
MaxDevices == 2
MaxListings == 2

\* ------------------------------------------------------------- input sets
UserIds == {"U1", "U2"}
\* the key of a property the submission does not carry
NoId == "undefined"
Keys == UserIds \cup {NoId}
\* the value undefined
Undefined == [undefined |-> TRUE]

SP == " "
TAB == "\t"
WhiteSpace == {SP, TAB}
Chars == WhiteSpace \cup {"g"}

SeqsUpTo(S, n) == UNION {[1..k -> S] : k \in 0..n}
Comments == SeqsUpTo(Chars, MaxCommentLen)

Lit(s) == [lit |-> s]

\* an attachment with its buttons/menu, and one without
Attachments ==
    { [text |-> "Do you accept the terms of service?", actions |-> <<"Yes", "No">>],
      [text |-> "plain"] }
Messages ==
    { [text |-> Lit("original"), attachments |-> a] :
        a \in UNION {[1..k -> Attachments] : k \in 1..MaxAttachments} }

Neighborhoods ==
    { [name |-> "Mission", link |-> "https://mission"],
      [name |-> "Sunset", link |-> "https://sunset"] }
Injective(s) == \A i, j \in DOMAIN s : s[i] = s[j] => i = j
MatchLists == {s \in SeqsUpTo(Neighborhoods, MaxMatches) : Injective(s)}

\* ------------------------------------------------------------------ state
VARIABLES
    users,      \* the persistence layer's user records, by slack id
    pc,         \* which callback of the current event runs next
    kind,       \* the handler the current event was routed to
    payload,    \* the event object the handler holds (handlers mutate it)
    delivered,  \* the event as the transport delivered it
    reply,      \* the handler's return value
    log,        \* the effects of the current event, in order
    held,       \* the value the pending promise chain carries
    tradfri,    \* the shared gateway connection and the devices it has observed
    listings    \* the device listings answered so far: the map read, the devices rendered

vars == <<users, pc, kind, payload, delivered, reply, log, held, tradfri, listings>>

NoReply == [returned |-> FALSE]
Returned(v) == [returned |-> TRUE, value |-> v]
NoPayload == [none |-> TRUE]
NoDevices == <<>>
NoConnection ==
    [connected |-> FALSE, observeCalls |-> 0, subscriptions |-> 0, devices |-> NoDevices]

Respond(m) == [op |-> "respond", msg |-> m]
ReturnOp == [op |-> "return"]
Call(f, arg) == [op |-> "call", fn |-> f, arg |-> arg]
\* the promise `f` returned has settled: resolved (ok) or rejected
Settled(f, ok) == [op |-> "settled", fn |-> f, ok |-> ok]

Pushes(l) == SelectSeq(l, LAMBDA e : e.op = "respond")
Calls(l, f) == SelectSeq(l, LAMBDA e : e.op = "call" /\ e.fn = f)
Rejections(l) == SelectSeq(l, LAMBDA e : e.op = "settled" /\ ~e.ok)

Init ==
    /\ users = [k \in Keys |-> [agreedToPolicy |-> FALSE, kudosCount |-> 0]]
    /\ pc = "idle"
    /\ kind = "none"
    /\ payload = NoPayload
    /\ delivered = NoPayload
    /\ reply = NoReply
    /\ log = <<>>
    /\ held = Undefined
    /\ tradfri = NoConnection
    /\ listings = <<>>

\* --------------------------------------------------------------- helpers
\* a handler that forgets to delete the actions
DeleteFirstActions_Kept(m) == m

\* delete reply.attachments[0].actions, on the message object itself
DeleteFirstActions(m) ==
    [m EXCEPT !.attachments[1] =
        [k \in (DOMAIN @) \ {"actions"} |-> @[k]]]

TosErrorText == Lit("An error occurred while recording your agreement choice.")
TosAgreedText == Lit("Thank you for agreeing to the terms of service")
TosDeniedText ==
    Lit("You have denied the terms of service. You will no longer have access to this app.")

\* ------------------------------------------------------------ accept_tos
AcceptTosPayloads ==
    { [user |-> [id |-> u], actions |-> <<[value |-> v]>>, original_message |-> m] :
        u \in UserIds, v \in {"accept", "deny"}, m \in Messages }

AcceptTosBody(p) ==
    /\ kind' = "accept_tos"
    /\ delivered' = p
    /\ log' = << Call("findBySlackId", p.user.id),
                 Respond([text |-> TosErrorText]),
                 ReturnOp >>
    /\ payload' = [p EXCEPT !.original_message = DeleteFirstActions(@)]
    /\ reply' = Returned(payload'.original_message)
    /\ pc' = "tos_find"
    /\ UNCHANGED <<tradfri, listings, users, held>>

AcceptTos ==
    /\ pc = "idle"
    /\ \E p \in AcceptTosPayloads : AcceptTosBody(p)

\* users.findBySlackId resolved: user.setPolicyAgreementAndSave(value === 'accept')
TosFindResolves ==
    /\ pc = "tos_find"
    /\ held' = [id |-> payload.user.id,
                agree |-> (payload.actions[1].value = "accept")]
    /\ log' = log \o << Settled("findBySlackId", TRUE),
                        Call("setPolicyAgreementAndSave", held'.agree) >>
    /\ pc' = "tos_save"
    /\ UNCHANGED <<tradfri, listings, users, kind, payload, delivered, reply>>

\* a .catch that only logs the error
TosCatch_Silent(f) ==
    /\ log' = Append(log, Settled(f, FALSE))
    /\ pc' = "done"
    /\ held' = Undefined
    /\ UNCHANGED <<tradfri, listings, users, kind, payload, delivered, reply>>

\* the .catch callback of the accept_tos chain
TosCatch(f) ==
    /\ log' = log \o << Settled(f, FALSE), Respond([text |-> TosErrorText]) >>
    /\ pc' = "done"
    /\ held' = Undefined
    /\ UNCHANGED <<tradfri, listings, users, kind, payload, delivered, reply>>

TosFindRejects ==
    /\ pc = "tos_find"
    /\ TosCatch("findBySlackId")

\* the saved user the persistence layer resolves with
SetPolicyAgreement(u, agree) == [u EXCEPT !.agreedToPolicy = agree]

\* a confirmation that thanks the user whatever was saved
TosConfirmation_AlwaysThanks(user) == TosAgreedText

TosConfirmation(user) ==
    IF user.agreedToPolicy THEN TosAgreedText ELSE TosDeniedText

TosSaveResolves ==
    /\ pc = "tos_save"
    /\ users' = [users EXCEPT ![held.id] = SetPolicyAgreement(@, held.agree)]
    /\ log' = log \o << Settled("setPolicyAgreementAndSave", TRUE),
                        Respond([text |-> TosConfirmation(users'[held.id])]) >>
    /\ pc' = "done"
    /\ held' = Undefined
    /\ UNCHANGED <<tradfri, listings, kind, payload, delivered, reply>>

TosSaveRejects ==
    /\ pc = "tos_save"
    /\ TosCatch("setPolicyAgreementAndSave")

\* ------------------------------------------- pick_sf_neighborhood options
OptionsPayloads == { [value |-> v] : v \in {"mis", "zzz"} }

\* options whose value is the link instead of the name
FormatNeighborhoodsAsOptions_Link(ns) ==
    [options |-> [i \in DOMAIN ns |-> [text |-> ns[i].name, value |-> ns[i].link]]]

FormatNeighborhoodsAsOptions(ns) ==
    [options |-> [i \in DOMAIN ns |-> [text |-> ns[i].name, value |-> ns[i].name]]]

\* the handler returns the promise; `reply` is what that promise settles to
OptionsRequest ==
    /\ pc = "idle"
    /\ \E p \in OptionsPayloads :
        /\ payload' = p
        /\ delivered' = p
        /\ log' = << Call("fuzzyFind", p.value), ReturnOp >>
    /\ kind' = "options"
    /\ pc' = "opt_find"
    /\ UNCHANGED <<tradfri, listings, users, reply, held>>

FuzzyFindResolves ==
    /\ pc = "opt_find"
    /\ \E ns \in MatchLists :
        /\ held' = [matches |-> ns]
        /\ reply' = Returned(FormatNeighborhoodsAsOptions(ns))
    /\ log' = Append(log, Settled("fuzzyFind", TRUE))
    /\ pc' = "done"
    /\ UNCHANGED <<tradfri, listings, users, kind, payload, delivered>>

FuzzyFindRejects ==
    /\ pc = "opt_find"
    /\ held' = Undefined
    /\ reply' = Returned([options |-> <<>>])
    /\ log' = Append(log, Settled("fuzzyFind", FALSE))
    /\ pc' = "done"
    /\ UNCHANGED <<tradfri, listings, users, kind, payload, delivered>>

\* -------------------------------------------- pick_sf_neighborhood action
PickPayloads ==
    { [actions |-> <<[selected_options |-> <<[value |-> n.name]>>]>>,
       original_message |-> m] : n \in Neighborhoods, m \in Messages }

PickErrorText == Lit("An error occurred while finding the neighborhood.")

PickBody(p) ==
    /\ kind' = "pick_sf_neighborhood"
    /\ delivered' = p
    /\ log' = << Call("find", p.actions[1].selected_options[1].value), ReturnOp >>
    /\ payload' = [p EXCEPT !.original_message = DeleteFirstActions(@)]
    /\ reply' = Returned(payload'.original_message)
    /\ pc' = "pick_find"
    /\ UNCHANGED <<tradfri, listings, users, held>>

PickNeighborhood ==
    /\ pc = "idle"
    /\ \E p \in PickPayloads : PickBody(p)

PickReply(p, neighborhood) ==
    [text |-> p.original_message.text,
     attachments |-> << [title |-> neighborhood.name,
                         title_link |-> neighborhood.link,
                         text |-> "One of the most interesting neighborhoods in the city."] >>]

PickFindResolves ==
    /\ pc = "pick_find"
    /\ \E n \in Neighborhoods :
        /\ n.name = payload.actions[1].selected_options[1].value
        /\ held' = n
        /\ log' = log \o << Settled("find", TRUE), Respond(PickReply(payload, n)) >>
    /\ pc' = "done"
    /\ UNCHANGED <<tradfri, listings, users, kind, payload, delivered, reply>>

\* a catch callback that only logs the error
PickFindRejects_Silent ==
    /\ pc = "pick_find"
    /\ log' = Append(log, Settled("find", FALSE))
    /\ held' = Undefined
    /\ pc' = "done"
    /\ UNCHANGED <<tradfri, listings, users, kind, payload, delivered, reply>>

PickFindRejects ==
    /\ pc = "pick_find"
    /\ log' = log \o << Settled("find", FALSE), Respond([text |-> PickErrorText]) >>
    /\ held' = Undefined
    /\ pc' = "done"
    /\ UNCHANGED <<tradfri, listings, users, kind, payload, delivered, reply>>

\* ------------------------------------------------------ dialog_submission
RECURSIVE TrimStart(_)
TrimStart(s) ==
    IF s /= <<>> /\ Head(s) \in WhiteSpace THEN TrimStart(Tail(s)) ELSE s

RECURSIVE TrimEnd(_)
TrimEnd(s) ==
    IF s /= <<>> /\ s[Len(s)] \in WhiteSpace
    THEN TrimEnd(SubSeq(s, 1, Len(s) - 1)) ELSE s

Trim(s) == TrimEnd(TrimStart(s))

CommentError == [name |-> "comment", error |-> "The comment cannot be empty"]

\* a validation that tests the comment without trimming it
ValidateKudosSubmission_NoTrim(submission) ==
    LET errors == IF submission.comment = <<>> THEN <<CommentError>> ELSE <<>>
    IN  IF Len(errors) > 0 THEN [errors |-> errors] ELSE Undefined

\* undefined when there are no errors
ValidateKudosSubmission(submission) ==
    LET errors == IF Trim(submission.comment) = <<>> THEN <<CommentError>> ELSE <<>>
    IN  IF Len(errors) > 0 THEN [errors |-> errors] ELSE Undefined

\* the dialog's elements are `user` and `comment`; `id` is what the
\* submission carries under that name, undefined when it carries nothing
DialogPayloads ==
    { [user |-> [id |-> u],
       submission |-> [user |-> t, comment |-> c, id |-> i]] :
        u \in UserIds, t \in UserIds, c \in Comments, i \in Keys }

DialogBody(p) ==
    LET errors == ValidateKudosSubmission(p.submission)
    IN  /\ kind' = "dialog_submission"
        /\ payload' = p
        /\ delivered' = p
        /\ IF errors /= Undefined
           THEN /\ reply' = Returned(errors)
                /\ log' = <<ReturnOp>>
                /\ pc' = "done"
           ELSE /\ reply' = Returned(Undefined)
                /\ log' = << Call("setTimeout", 0), ReturnOp >>
                /\ pc' = "kudos_timer"
        /\ UNCHANGED <<tradfri, listings, users, held>>

DialogSubmission ==
    /\ pc = "idle"
    /\ \E p \in DialogPayloads :
        /\ ValidateKudosSubmission(p.submission) = Undefined
              => users[p.submission.id].kudosCount < MaxKudos
        /\ DialogBody(p)

PartialMessage(p) == [tpl |-> "just gave kudos to", from |-> p.user.id, to |-> p.submission.user]
TotalMessage(p, user) ==
    [tpl |-> "just gave kudos to; That makes a total of",
     from |-> p.user.id, to |-> p.submission.user, total |-> user.kudosCount]
KudosErrorText == Lit("An error occurred while incrementing kudos.")

\* the setTimeout callback: acknowledge, then start the lookup
KudosTimerFires ==
    /\ pc = "kudos_timer"
    /\ log' = log \o << Respond([text |-> PartialMessage(payload)]),
                        Call("findBySlackId", payload.submission.id) >>
    /\ pc' = "kudos_find"
    /\ UNCHANGED <<tradfri, listings, users, kind, payload, delivered, reply, held>>

KudosFindResolves ==
    /\ pc = "kudos_find"
    /\ held' = [id |-> payload.submission.id]
    /\ log' = log \o << Settled("findBySlackId", TRUE),
                        Call("incrementKudosAndSave", payload.submission.comment) >>
    /\ pc' = "kudos_save"
    /\ UNCHANGED <<tradfri, listings, users, kind, payload, delivered, reply>>

\* a .catch that only logs the error
KudosCatch_Silent(f) ==
    /\ log' = Append(log, Settled(f, FALSE))
    /\ held' = Undefined
    /\ pc' = "done"
    /\ UNCHANGED <<tradfri, listings, users, kind, payload, delivered, reply>>

KudosCatch(f) ==
    /\ log' = log \o << Settled(f, FALSE), Respond([text |-> KudosErrorText]) >>
    /\ held' = Undefined
    /\ pc' = "done"
    /\ UNCHANGED <<tradfri, listings, users, kind, payload, delivered, reply>>

KudosFindRejects ==
    /\ pc = "kudos_find"
    /\ KudosCatch("findBySlackId")

\* the saved user the persistence layer resolves with
IncrementKudos(u) == [u EXCEPT !.kudosCount = @ + 1]

KudosSaveResolves ==
    /\ pc = "kudos_save"
    /\ users' = [users EXCEPT ![held.id] = IncrementKudos(@)]
    /\ log' = log \o << Settled("incrementKudosAndSave", TRUE),
                        Respond([text |-> TotalMessage(payload, users'[held.id]),
                                 replace_original |-> TRUE]) >>
    /\ held' = Undefined
    /\ pc' = "done"
    /\ UNCHANGED <<tradfri, listings, kind, payload, delivered, reply>>

KudosSaveRejects ==
    /\ pc = "kudos_save"
    /\ KudosCatch("incrementKudosAndSave")

\* ---------------------------------------------------------------- events
\* the event is over; the adapter waits for the next one
EventDone ==
    /\ pc = "done"
    /\ pc' = "idle"
    /\ kind' = "none"
    /\ payload' = NoPayload
    /\ delivered' = NoPayload
    /\ reply' = NoReply
    /\ log' = <<>>
    /\ held' = Undefined
    /\ UNCHANGED <<tradfri, listings, users>>

Next ==
    \/ AcceptTos
    \/ TosFindResolves
    \/ TosFindRejects
    \/ TosSaveResolves
    \/ TosSaveRejects
    \/ OptionsRequest
    \/ FuzzyFindResolves
    \/ FuzzyFindRejects
    \/ PickNeighborhood
    \/ PickFindResolves
    \/ PickFindRejects
    \/ DialogSubmission
    \/ KudosTimerFires
    \/ KudosFindResolves
    \/ KudosFindRejects
    \/ KudosSaveResolves
    \/ KudosSaveRejects
    \/ EventDone

Spec == Init /\ [][Next]_vars

\* The interaction handlers under the assumption that a started
\* neighborhoods.find settles: its promise is resolved or rejected and the
\* continuation attached at lines 129-147 is run by the event loop.
PickFindSettles == PickFindResolves \/ PickFindRejects
SpecLive == Spec /\ WF_vars(PickFindSettles)
\* ---------------------------------------------------------- device listing
SettleDelay == 1000

Light(on, colour) ==
    [onOff |-> on, spectrum |-> "rgb", dimmer |-> 50, color |-> colour,
     colorTemperature |-> 30]

\* raw device records the gateway can hold under instance id `id`; the type
\* codes are the gateway client's: 0 remote, 2 light, 3 plug, 4 sensor
DeviceVariants(id) ==
    { [instanceId |-> id, name |-> "remote", type |-> 0, deviceInfo |-> [battery |-> 87]],
      [instanceId |-> id, name |-> "remote", type |-> 0],
      [instanceId |-> id, name |-> "sensor", type |-> 4, deviceInfo |-> [battery |-> 34]],
      [instanceId |-> id, name |-> "lamp", type |-> 2,
       lightList |-> <<Light(TRUE, "f1e0b5")>>],
      [instanceId |-> id, name |-> "strip", type |-> 2,
       lightList |-> <<Light(FALSE, "efd275"), Light(TRUE, "f1e0b5")>>],
      [instanceId |-> id, name |-> "lamp", type |-> 2, lightList |-> <<>>],
      [instanceId |-> id, name |-> "bulb", type |-> 2, lightList |-> <<[onOff |-> TRUE]>>],
      [instanceId |-> id, name |-> "plug", type |-> 3, plugList |-> <<[onOff |-> TRUE]>>],
      [instanceId |-> id, name |-> "plug", type |-> 3, plugList |-> <<>>],
      [instanceId |-> id, name |-> "repeater", type |-> 6] }

DeviceRecords == UNION {DeviceVariants(id) : id \in 1..MaxDevices}
DeviceMaps ==
    UNION { {m \in [ids -> DeviceRecords] : \A id \in ids : m[id].instanceId = id} :
            ids \in SUBSET (1..MaxDevices) }

\* reading a property of undefined
Thrown == [thrown |-> TRUE]

\* reading property `k` of an object: undefined when it has none
Get(obj, k) == IF k \in DOMAIN obj THEN obj[k] ELSE Undefined

\* a printDeviceInfo that reads the last light channel instead of the first
PrintDeviceInfo_LastChannel(device) ==
    CASE device.type \in {0, 4} ->
            IF "deviceInfo" \in DOMAIN device THEN Undefined ELSE Thrown
      [] device.type = 2 ->
            IF "lightList" \notin DOMAIN device \/ device.lightList = <<>>
            THEN Thrown
            ELSE LET lightInfo == device.lightList[Len(device.lightList)]
                 IN  [instanceId |-> device.instanceId,
                      name |-> device.name,
                      onOff |-> Get(lightInfo, "onOff"),
                      spectrum |-> Get(lightInfo, "spectrum"),
                      dimmer |-> Get(lightInfo, "dimmer"),
                      color |-> Get(lightInfo, "color"),
                      colorTemperature |-> Get(lightInfo, "colorTemperature")]
      [] device.type = 3 ->
            IF "plugList" \in DOMAIN device /\ device.plugList /= <<>>
            THEN Undefined ELSE Thrown
      [] OTHER -> Undefined

\* the value printDeviceInfo returns: an info object, undefined, or a throw
PrintDeviceInfo(device) ==
    CASE device.type \in {0, 4} ->
            IF "deviceInfo" \in DOMAIN device THEN Undefined ELSE Thrown
      [] device.type = 2 ->
            IF "lightList" \notin DOMAIN device \/ device.lightList = <<>>
            THEN Thrown
            ELSE LET lightInfo == device.lightList[1]
                 IN  [instanceId |-> device.instanceId,
                      name |-> device.name,
                      onOff |-> Get(lightInfo, "onOff"),
                      spectrum |-> Get(lightInfo, "spectrum"),
                      dimmer |-> Get(lightInfo, "dimmer"),
                      color |-> Get(lightInfo, "color"),
                      colorTemperature |-> Get(lightInfo, "colorTemperature")]
      [] device.type = 3 ->
            IF "plugList" \in DOMAIN device /\ device.plugList /= <<>>
            THEN Undefined ELSE Thrown
      [] OTHER -> Undefined

Field(label, value) == [text |-> [label |-> label, value |-> value], type |-> "mrkdwn"]

BasicInfo(info) ==
    [type |-> "section", block_id |-> "", text |-> [type |-> "mrkdwn", text |-> info.name]]
CurrentInfo(info) ==
    [type |-> "section",
     fields |-> << Field("*Instance ID*", info.instanceId),
                   Field("*On/Off*", info.onOff),
                   Field("*Spectrum*", info.spectrum),
                   Field("*Dimmer*", info.dimmer),
                   Field("*Color* #", info.color) >>]
TextInput ==
    [type |-> "input",
     element |-> [type |-> "plain_text_input", multiline |-> TRUE],
     label |-> [type |-> "plain_text", text |-> "Label", emoji |-> TRUE]]
Divider == [type |-> "divider"]

\* the blocks one loop iteration pushes for a device with an info object
InfoBlocks(info) == << BasicInfo(info), CurrentInfo(info), TextInput, Divider >>

\* a loop that visits the keys in descending order
Max(S) == CHOOSE x \in S : \A y \in S : x >= y

Min(S) == CHOOSE x \in S : \A y \in S : x <= y

\* a loop that returns after its first iteration
DeviceLoop_FirstOnly(devices, ids) ==
    IF ids = {} THEN [thrown |-> FALSE, blocks |-> <<>>]
    ELSE LET info == PrintDeviceInfo(devices[Min(ids)])
         IN  IF info = Thrown THEN [thrown |-> TRUE, blocks |-> <<>>]
             ELSE [thrown |-> FALSE,
                   blocks |-> IF info /= Undefined THEN InfoBlocks(info) ELSE <<>>]

\* the for-in loop over tradfri.devices, from the ids not yet visited:
\* integer keys are visited in ascending order
RECURSIVE DeviceLoop(_, _)
DeviceLoop(devices, ids) ==
    IF ids = {} THEN [thrown |-> FALSE, blocks |-> <<>>]
    ELSE LET deviceId == Min(ids)
             info == PrintDeviceInfo(devices[deviceId])
             rest == DeviceLoop(devices, ids \ {deviceId})
         IN  IF info = Thrown THEN [thrown |-> TRUE, blocks |-> <<>>]
             ELSE IF rest.thrown THEN rest
             ELSE [thrown |-> FALSE,
                   blocks |-> (IF info /= Undefined THEN InfoBlocks(info) ELSE <<>>)
                              \o rest.blocks]

WelcomeBlock ==
    [type |-> "section",
     text |-> [type |-> "mrkdwn", text |-> "*Welcome to Tradbot* *Please choose a device:*"]]

DeviceInfoModal(blocks) ==
    [type |-> "modal",
     title |-> [type |-> "plain_text", text |-> "Tradbot", emoji |-> TRUE],
     blocks |-> <<WelcomeBlock>> \o blocks]

\* ------------------------------------------------------------ slash command
BotCommand == "/tradbot"
SubActions == {"button", "menu", "devices", "dialog"}
\* request texts, as keyword and space chunks
Texts ==
    {<<w>> : w \in SubActions \cup {"help"}}
        \cup {<<w, SP, "now">> : w \in SubActions \cup {"help"}}
        \cup {<<>>, <<SP, "devices">>, <<"devices", "x">>}
SlashRequests ==
    { [verified |-> v, body |-> [command |-> c, text |-> t,
                                 trigger_id |-> "T1", response_url |-> "https://hooks"]] :
        v \in BOOLEAN, c \in {BotCommand, "/other"}, t \in Texts }

\* a dispatch on the whole text instead of its first word
FirstWord_WholeText(text) == text

\* text.split(' ')[0]: the chunks before the first space
RECURSIVE FirstWord(_)
FirstWord(text) ==
    IF text = <<>> \/ Head(text) = SP THEN <<>>
    ELSE <<Head(text)>> \o FirstWord(Tail(text))

Res(method, body) == [op |-> "res", method |-> method, body |-> body]
UnhandledRejection == [op |-> "unhandledRejection"]
Responses(l) == SelectSeq(l, LAMBDA e : e.op = "res")

InteractiveButtons == [text |-> Lit("terms of service"), callback_id |-> "accept_tos"]
InteractiveMenu == [type |-> "modal"]
UsageText == Lit("Use this command followed by button, menu, or dialog.")

SlashCommandBody(req) ==
    LET type == FirstWord(req.body.text)
    IN  /\ kind' = "slash_command"
        /\ payload' = req
        /\ delivered' = req
        /\ IF req.verified /\ req.body.command = BotCommand
           THEN CASE type = <<"button">> ->
                        /\ log' = <<Res("json", InteractiveButtons)>>
                        /\ pc' = "done"
                  [] type = <<"menu">> ->
                        /\ log' = <<Res("json", InteractiveMenu)>>
                        /\ pc' = "done"
                  [] type = <<"devices">> ->
                        /\ tradfri.observeCalls < MaxListings
                        /\ log' = <<Call("getConnection", Undefined)>>
                        /\ pc' = "cmd_connect"
                  [] type = <<"dialog">> ->
                        /\ log' = << Res("send", Undefined),
                                     Call("views.open", req.body.trigger_id) >>
                        /\ pc' = "cmd_view"
                  [] OTHER ->
                        /\ log' = <<Res("send", UsageText)>>
                        /\ pc' = "done"
           ELSE /\ log' = << Res("sendStatus", 404), Call("next", Undefined) >>
                /\ pc' = "done"
        /\ UNCHANGED <<users, reply, held, tradfri, listings>>

SlackSlashCommand ==
    /\ pc = "idle"
    /\ \E req \in SlashRequests : SlashCommandBody(req)

\* the handle's observeDevices(): it subscribes to the gateway's devices
\* unless the handle already observes them
ObserveDevices(handle) ==
    [handle EXCEPT !.observeCalls = @ + 1,
                   !.subscriptions = IF @ = 0 THEN 1 ELSE @]

\* getAndPrintDevices after `await connection.getConnection()`
ConnectionResolves ==
    /\ pc = "cmd_connect"
    /\ tradfri' = ObserveDevices([tradfri EXCEPT !.connected = TRUE])
    /\ log' = log \o << Settled("getConnection", TRUE),
                        Call("observeDevices", Undefined),
                        Call("delay", SettleDelay) >>
    /\ pc' = "cmd_delay"
    /\ UNCHANGED <<users, kind, payload, delivered, reply, held, listings>>

\* nothing awaits slackSlashCommand's promise: the rejection is unhandled
ConnectionRejects ==
    /\ pc = "cmd_connect"
    /\ log' = log \o << Settled("getConnection", FALSE), UnhandledRejection >>
    /\ pc' = "done"
    /\ UNCHANGED <<users, kind, payload, delivered, reply, held, tradfri, listings>>

\* the gateway pushes its initial device state to the observer
DevicesObserved ==
    /\ pc = "cmd_delay"
    /\ tradfri.devices = NoDevices
    /\ \E m \in DeviceMaps \ {NoDevices} : tradfri' = [tradfri EXCEPT !.devices = m]
    /\ UNCHANGED <<users, pc, kind, payload, delivered, reply, log, held, listings>>

\* the rest of getAndPrintDevices, and res.json(devices) when it returns
DelayElapses ==
    /\ pc = "cmd_delay"
    /\ LET loop == DeviceLoop(tradfri.devices, DOMAIN tradfri.devices)
       IN  /\ held' = loop
           /\ log' = log \o
                << Settled("delay", TRUE),
                   IF loop.thrown THEN UnhandledRejection
                   ELSE Res("json", DeviceInfoModal(loop.blocks)) >>
           /\ listings' = IF loop.thrown THEN listings
                          ELSE Append(listings, [devices |-> tradfri.devices,
                                                 rendered |-> Len(loop.blocks) \div 4])
    /\ pc' = "done"
    /\ UNCHANGED <<users, kind, payload, delivered, reply, tradfri>>

DialogErrorText == Lit("An error occurred while opening the dialog")

ViewsOpenResolves ==
    /\ pc = "cmd_view"
    /\ log' = Append(log, Settled("views.open", TRUE))
    /\ pc' = "done"
    /\ UNCHANGED <<users, kind, payload, delivered, reply, held, tradfri, listings>>

ViewsOpenRejects ==
    /\ pc = "cmd_view"
    /\ log' = log \o << Settled("views.open", FALSE),
                        Call("axios.post", [url |-> payload.body.response_url,
                                            text |-> DialogErrorText]) >>
    /\ pc' = "cmd_post"
    /\ UNCHANGED <<users, kind, payload, delivered, reply, held, tradfri, listings>>

AxiosPostResolves ==
    /\ pc = "cmd_post"
    /\ log' = Append(log, Settled("axios.post", TRUE))
    /\ pc' = "done"
    /\ UNCHANGED <<users, kind, payload, delivered, reply, held, tradfri, listings>>

\* the second .catch: console.error
AxiosPostRejects ==
    /\ pc = "cmd_post"
    /\ log' = Append(log, Settled("axios.post", FALSE))
    /\ pc' = "done"
    /\ UNCHANGED <<users, kind, payload, delivered, reply, held, tradfri, listings>>

NextCmd ==
    \/ SlackSlashCommand
    \/ ConnectionResolves
    \/ ConnectionRejects
    \/ DevicesObserved
    \/ DelayElapses
    \/ ViewsOpenResolves
    \/ ViewsOpenRejects
    \/ AxiosPostResolves
    \/ AxiosPostRejects
    \/ EventDone

SpecCmd == Init /\ [][NextCmd]_vars

\* ================================================================ claims
IsBlank(c) == \A i \in DOMAIN c : c[i] \in WhiteSpace
DeferredKinds == {"accept_tos", "pick_sf_neighborhood", "dialog_submission"}
ActionKinds == DeferredKinds

\* C1: a dialog submission whose comment is empty or whitespace-only is
\* answered synchronously with exactly one validation error, keyed
\* `comment`; no respond call and no persistence call is made for it, and
\* nothing is left scheduled.
C1_BlankCommentRejected ==
    (kind = "dialog_submission" /\ IsBlank(delivered.submission.comment)) =>
        /\ reply.returned
        /\ DOMAIN reply.value = {"errors"}
        /\ Len(reply.value.errors) = 1
        /\ reply.value.errors[1].name = "comment"
        /\ log = <<ReturnOp>>
        /\ pc = "done"

C1_Witness ==
    /\ kind = "dialog_submission"
    /\ delivered.submission.comment = <<SP, TAB>>
    /\ reply.returned

\* C2 (as claimed): when the lookup and the increment of a valid kudos
\* submission succeed, exactly two replies have been pushed, the
\* acknowledgement naming submitter and target first, then a final reply
\* that replaces the original and states the target's prior count plus one.
C2_FinalStatesTargetTotal ==
    [][ (pc = "kudos_save" /\ pc' = "done" /\ users' /= users) =>
          LET ps == Pushes(log')
              target == payload.submission.user
          IN  /\ Len(ps) = 2
              /\ ps[1].msg = [text |-> [tpl |-> "just gave kudos to",
                                        from |-> payload.user.id, to |-> target]]
              /\ ps[2].msg.replace_original
              /\ ps[2].msg.text.from = payload.user.id
              /\ ps[2].msg.text.to = target
              /\ ps[2].msg.text.total = users[target].kudosCount + 1 ]_vars

\* C3 (as claimed): an accept_tos event is answered by exactly one push.
C3_AcceptTosSinglePush ==
    (kind = "accept_tos" /\ pc = "done") => Len(Pushes(log)) = 1

\* C4 (as claimed): every push of an action event happens after the
\* handler's synchronous return.
C4_PushesAfterReturn ==
    kind \in ActionKinds =>
        \A i \in DOMAIN log :
            log[i].op = "respond" => \E j \in 1..(i - 1) : log[j] = ReturnOp

\* C5: the immediate reply of accept_tos and pick_sf_neighborhood is the
\* delivered original message without the first attachment's actions and
\* with every other part unchanged, and it is there when the handler has
\* returned.
C5_ReplyIsStrippedOriginal ==
    kind \in {"accept_tos", "pick_sf_neighborhood"} =>
        LET o == delivered.original_message
            r == reply.value
        IN  /\ reply.returned
            /\ DOMAIN r = DOMAIN o
            /\ r.text = o.text
            /\ Len(r.attachments) = Len(o.attachments)
            /\ DOMAIN r.attachments[1] = (DOMAIN o.attachments[1]) \ {"actions"}
            /\ \A k \in DOMAIN r.attachments[1] :
                   r.attachments[1][k] = o.attachments[1][k]
            /\ \A i \in 2..Len(o.attachments) : r.attachments[i] = o.attachments[i]

C5_Witness ==
    /\ kind = "pick_sf_neighborhood"
    /\ "actions" \in DOMAIN delivered.original_message.attachments[1]
    /\ Len(delivered.original_message.attachments) = 2
    /\ reply.returned

ErrorTextOf(k) ==
    CASE k = "accept_tos" -> TosErrorText
      [] k = "pick_sf_neighborhood" -> PickErrorText
      [] k = "dialog_submission" -> KudosErrorText

LookupCalls(l) == SelectSeq(l, LAMBDA e : e.op = "call" /\ e.fn \in {"findBySlackId", "find"})
WriteCalls(l) ==
    SelectSeq(l, LAMBDA e : e.op = "call"
                    /\ e.fn \in {"setPolicyAgreementAndSave", "incrementKudosAndSave"})

\* C6: in the three handlers with a deferred phase, a rejected lookup or
\* write is followed at once by a push of the handler's generic error
\* text, nothing of the chain stays pending, and per event there is at
\* most one lookup and one write.
C6_FailureBecomesErrorPush ==
    kind \in DeferredKinds =>
        /\ Len(LookupCalls(log)) <= 1
        /\ Len(WriteCalls(log)) <= 1
        /\ Len(Rejections(log)) <= 1
        /\ \A i \in DOMAIN log :
              (log[i].op = "settled" /\ ~log[i].ok) =>
                  /\ i + 1 = Len(log)
                  /\ log[i + 1] = Respond([text |-> ErrorTextOf(kind)])
                  /\ pc = "done"

C6_Witness ==
    /\ kind = "accept_tos"
    /\ Len(WriteCalls(log)) = 1
    /\ Len(Rejections(log)) = 1

\* C8: an options request settles to one {text, value} option per matched
\* neighborhood, in match order; to {options: []} when nothing matched and
\* when the lookup failed; and it never pushes.
C8_OptionsFromMatches ==
    kind = "options" =>
        /\ Pushes(log) = <<>>
        /\ pc = "done" =>
            /\ reply.returned
            /\ DOMAIN reply.value = {"options"}
            /\ IF Rejections(log) /= <<>>
               THEN reply.value.options = <<>>
               ELSE LET ns == held.matches
                        os == reply.value.options
                    IN  /\ Len(os) = Len(ns)
                        /\ \A i \in DOMAIN ns :
                              os[i] = [text |-> ns[i].name, value |-> ns[i].name]

C8_Witness ==
    /\ kind = "options"
    /\ pc = "done"
    /\ Rejections(log) = <<>>
    /\ Len(held.matches) = 2
IsDevicesRequest(req) ==
    /\ req.verified
    /\ req.body.command = BotCommand
    /\ req.body.text /= <<>>
    /\ req.body.text[1] = "devices"
    /\ (Len(req.body.text) > 1 => req.body.text[2] = SP)

\* C7 (as claimed): a device-listing command whose gateway connection or
\* device query failed is still answered, with one rendered reply, and the
\* gateway was called once.
C7_GatewayFailureAnswered ==
    (kind = "slash_command" /\ pc = "done" /\ IsDevicesRequest(delivered)) =>
        /\ Len(Responses(log)) = 1
        /\ Len(Calls(log, "getConnection")) = 1

IsSnapshot(info) == info /= Undefined /\ info /= Thrown
Classified(devices) == {id \in DOMAIN devices : IsSnapshot(PrintDeviceInfo(devices[id]))}
Rank(devices, id) == Cardinality({j \in Classified(devices) : j < id})
FieldLabels(section) == [i \in DOMAIN section.fields |-> section.fields[i].text.label]
FieldValues(section) == [i \in DOMAIN section.fields |-> section.fields[i].text.value]
ListingDone == kind = "slash_command" /\ pc = "done" /\ IsDevicesRequest(delivered)
                  /\ Calls(log, "delay") /= <<>>

\* C9: a finished device listing holds, after the welcome block, one group
\* of four blocks (identity section, fields section with Instance ID,
\* On/Off, Spectrum, Dimmer, Color, note input, divider) per device that
\* printDeviceInfo returns an info object for, in ascending key order, and
\* nothing for the others; a device of an unrecognized type never throws,
\* so the listing is answered unless some recognized device throws.
C9_ListingGroupsInOrder ==
    ListingDone =>
        LET devices == tradfri.devices
            throws == \E id \in DOMAIN devices : PrintDeviceInfo(devices[id]) = Thrown
        IN  /\ \A id \in DOMAIN devices :
                  devices[id].type \notin {0, 2, 3, 4} =>
                      PrintDeviceInfo(devices[id]) = Undefined
            /\ throws <=> Responses(log) = <<>>
            /\ ~throws =>
                 LET blocks == Responses(log)[1].body.blocks
                 IN  /\ Len(Responses(log)) = 1
                     /\ Len(blocks) = 1 + 4 * Cardinality(Classified(devices))
                     /\ \A id \in Classified(devices) :
                          LET at == 1 + 4 * Rank(devices, id)
                              info == PrintDeviceInfo(devices[id])
                          IN  /\ blocks[at + 1].type = "section"
                              /\ blocks[at + 1].text.text = devices[id].name
                              /\ FieldLabels(blocks[at + 2]) =
                                   << "*Instance ID*", "*On/Off*", "*Spectrum*",
                                      "*Dimmer*", "*Color* #" >>
                              /\ FieldValues(blocks[at + 2]) =
                                   << id, info.onOff, info.spectrum,
                                      info.dimmer, info.color >>
                              /\ blocks[at + 3].type = "input"
                              /\ blocks[at + 4] = Divider

C9_Witness ==
    /\ ListingDone
    /\ DOMAIN tradfri.devices = {1, 2}
    /\ tradfri.devices[1].name = "repeater"
    /\ tradfri.devices[2].name = "strip"
    /\ Len(Responses(log)) = 1
    /\ Len(Responses(log)[1].body.blocks) = 5

\* C10 (as claimed): printDeviceInfo returns a snapshot with the battery
\* percentage for a remote or sensor and one with the first plug channel's
\* on/off state for a plug, so a finished listing has a block group for
\* each of them.
C10_BatteryAndPlugSnapshots ==
    ListingDone =>
        \A id \in DOMAIN tradfri.devices :
            LET device == tradfri.devices[id]
                info == PrintDeviceInfo(device)
            IN  /\ (device.type \in {0, 4} /\ "deviceInfo" \in DOMAIN device) =>
                      /\ IsSnapshot(info)
                      /\ "battery" \in DOMAIN info
                      /\ info.battery = device.deviceInfo.battery
                /\ (device.type = 3 /\ "plugList" \in DOMAIN device
                        /\ device.plugList /= <<>>) =>
                      /\ IsSnapshot(info)
                      /\ info.onOff = device.plugList[1].onOff
LightFields == {"onOff", "spectrum", "dimmer", "color"}
IsFullLight(device) ==
    /\ device.type = 2
    /\ "lightList" \in DOMAIN device
    /\ device.lightList /= <<>>
    /\ LightFields \subseteq DOMAIN device.lightList[1]

\* C11: for a light whose first light channel provides onOff, spectrum,
\* dimmer and color, printDeviceInfo returns an info object (only lights
\* get one) whose onOff, spectrum, dimmer and color are those of that first
\* channel, with the device's instanceId and name; a finished listing shows
\* these values in the device's fields.
C11_LightSnapshotFromFirstChannel ==
    \A id \in DOMAIN tradfri.devices :
        LET device == tradfri.devices[id]
            info == PrintDeviceInfo(device)
        IN  IsFullLight(device) =>
              /\ IsSnapshot(info)
              /\ LightFields \cup {"instanceId", "name"} \subseteq DOMAIN info
              /\ \A k \in LightFields : info[k] = device.lightList[1][k]
              /\ info.instanceId = device.instanceId
              /\ info.name = device.name
              /\ (ListingDone /\ Responses(log) /= <<>>) =>
                    LET blocks == Responses(log)[1].body.blocks
                        at == 1 + 4 * Rank(tradfri.devices, id)
                    IN  FieldValues(blocks[at + 2]) =
                            << device.instanceId,
                               device.lightList[1].onOff,
                               device.lightList[1].spectrum,
                               device.lightList[1].dimmer,
                               device.lightList[1].color >>

C11_Witness ==
    /\ ListingDone
    /\ Responses(log) /= <<>>
    /\ \E id \in DOMAIN tradfri.devices :
          /\ IsFullLight(tradfri.devices[id])
          /\ Len(tradfri.devices[id].lightList) = 2

\* C12 (as claimed): printDeviceInfo never fails on a raw device with
\* partial or missing sub-fields, so every listing over such devices is
\* answered, and the raw device objects are left as they were.
C12_PartialDevicesTolerated ==
    /\ \A id \in DOMAIN tradfri.devices :
            PrintDeviceInfo(tradfri.devices[id]) /= Thrown
    /\ ListingDone => Len(Responses(log)) = 1
StartsWithWord(text, w) ==
    /\ text /= <<>>
    /\ text[1] = w
    /\ (Len(text) > 1 => text[2] = SP)
Accepted(req) == req.verified /\ req.body.command = BotCommand

\* C13: a slash-command request that is not verified or not the bot's
\* command gets sendStatus(404) and nothing else from the handler; an
\* accepted one is dispatched on the first word of its text: button and
\* menu answer with their message, devices starts the listing, dialog
\* acknowledges and opens the view, any other first word answers with the
\* usage string.
C13_SlashDispatch ==
    kind = "slash_command" =>
        LET text == delivered.body.text
        IN  IF ~Accepted(delivered)
            THEN /\ Responses(log) = <<Res("sendStatus", 404)>>
                 /\ pc = "done"
            ELSE CASE StartsWithWord(text, "button") ->
                        log = <<Res("json", InteractiveButtons)>>
                   [] StartsWithWord(text, "menu") ->
                        log = <<Res("json", InteractiveMenu)>>
                   [] StartsWithWord(text, "devices") ->
                        log[1] = Call("getConnection", Undefined)
                   [] StartsWithWord(text, "dialog") ->
                        /\ log[1] = Res("send", Undefined)
                        /\ log[2] = Call("views.open", delivered.body.trigger_id)
                   [] OTHER ->
                        log = <<Res("send", UsageText)>>

C13_Witness ==
    /\ kind = "slash_command"
    /\ Accepted(delivered)
    /\ delivered.body.text = <<"menu", SP, "now">>
    /\ pc = "done"
C15_PayloadUnchanged ==
    kind \in {"accept_tos", "pick_sf_neighborhood"} => payload = delivered

\* C16: when the lookup and the save of an accept_tos event succeed, the
\* user's policy flag is saved as true exactly when the pressed button's
\* value is 'accept', and the confirmation pushed last is the thank-you
\* text exactly when the saved flag is true, the denied text otherwise.
C16_ConfirmationReflectsButton ==
    (kind = "accept_tos" /\ pc = "done" /\ Rejections(log) = <<>>) =>
        LET flag == users[delivered.user.id].agreedToPolicy
            ps == Pushes(log)
            texts == {ps[i].msg.text : i \in DOMAIN ps}
        IN  /\ flag <=> (delivered.actions[1].value = "accept")
            /\ Calls(log, "setPolicyAgreementAndSave")[1].arg = flag
            /\ ps[Len(ps)].msg.text = (IF flag THEN TosAgreedText ELSE TosDeniedText)
            /\ TosAgreedText \in texts <=> flag
            /\ TosDeniedText \in texts <=> ~flag

C16_Witness ==
    /\ kind = "accept_tos"
    /\ pc = "done"
    /\ Rejections(log) = <<>>
    /\ delivered.actions[1].value = "deny"
    /\ users[delivered.user.id].agreedToPolicy = FALSE
    /\ \E u \in UserIds : users[u].agreedToPolicy

IsPick == kind = "pick_sf_neighborhood"
PickSettledOk == \E i \in DOMAIN log : log[i] = Settled("find", TRUE)
PickSettledFailed == \E i \in DOMAIN log : log[i] = Settled("find", FALSE)
PickOutcome ==
    LET ps == Pushes(log)
    IN  /\ Len(ps) = 1
        /\ PickSettledOk /= PickSettledFailed
        /\ PickSettledOk =>
              \E n \in Neighborhoods :
                 /\ n.name = delivered.actions[1].selected_options[1].value
                 /\ ps[1].msg =
                       [text |-> delivered.original_message.text,
                        attachments |-> << [title |-> n.name,
                                            title_link |-> n.link,
                                            text |-> "One of the most interesting neighborhoods in the city."] >>]
        /\ PickSettledFailed => ps[1].msg = [text |-> PickErrorText]

\* C17: for every pick_sf_neighborhood event whose lookup settles, exactly
\* one push is eventually issued: the reply with the neighborhood's title,
\* link and descriptive text when the lookup succeeded, the generic error
\* text when it failed; before the lookup settles nothing is pushed, and
\* there are never two pushes.
C17_PickEventuallyPushesOnce ==
    /\ [](IsPick => /\ Len(Pushes(log)) <= 1
                    /\ (pc = "pick_find" => Pushes(log) = <<>>)
                    /\ (pc = "done" => PickOutcome))
    /\ (IsPick /\ pc = "pick_find") ~> (IsPick /\ pc = "done" /\ PickOutcome)

C17_Witness ==
    /\ IsPick
    /\ pc = "done"
    /\ PickSettledFailed
    /\ Pushes(log) = << Respond([text |-> PickErrorText]) >>

IsValidKudos == kind = "dialog_submission" /\ ~IsBlank(delivered.submission.comment)
IsAck(m) ==
    m = [text |-> [tpl |-> "just gave kudos to", from |-> delivered.user.id,
                   to |-> delivered.submission.user]]
IsTotal(m) ==
    /\ DOMAIN m = {"text", "replace_original"}
    /\ m.replace_original
    /\ DOMAIN m.text = {"tpl", "from", "to", "total"}
IsKudosError(m) == m = [text |-> KudosErrorText]

\* C18: in a valid kudos submission the first push is always the
\* acknowledgement and there are never more than two; once the lookup or
\* the increment has settled for good there are exactly two, the second
\* being either the total reply or the kudos error text.
C18_AckThenOneMore ==
    IsValidKudos =>
        LET ps == Pushes(log)
        IN  /\ Len(ps) <= 2
            /\ ps /= <<>> => IsAck(ps[1].msg)
            /\ pc = "done" =>
                  /\ Len(ps) = 2
                  /\ IsTotal(ps[2].msg) \/ IsKudosError(ps[2].msg)
                  /\ IsTotal(ps[2].msg) <=> Rejections(log) = <<>>
            /\ pc \in {"kudos_find", "kudos_save"} => Len(ps) = 1
            /\ pc = "kudos_timer" => ps = <<>>

C18_Witness ==
    /\ IsValidKudos
    /\ pc = "done"
    /\ Len(Rejections(log)) = 1
    /\ Calls(log, "incrementKudosAndSave") /= <<>>

\* C19 (as claimed): every slash-command request gets exactly one response
\* on its response object; in the dialog branch the acknowledgement comes
\* before the view-open call, and a failed view-open gives one post to the
\* response URL and no further response.
C19_ExactlyOneResponse ==
    (kind = "slash_command" /\ pc = "done") =>
        /\ Len(Responses(log)) = 1
        /\ Calls(log, "views.open") /= <<>> =>
              /\ log[1] = Res("send", Undefined)
              /\ log[2].op = "call" /\ log[2].fn = "views.open"
              /\ Len(Calls(log, "axios.post")) =
                    (IF \E i \in DOMAIN log : log[i] = Settled("views.open", FALSE)
                     THEN 1 ELSE 0)
====
